---- MODULE Spec2Model ----
(***************************************************************************)
(* Model of cmlibs.utils.zinc.group (identifier range helpers) and         *)
(* cmlibs.utils.zinc.region (convert_nodes_to_datapoints).                 *)
(*                                                                         *)
(* A Python str is a sequence of one-character strings, a range [a, b] is  *)
(* the tuple <<a, b>>, a list is a sequence.                               *)
(***************************************************************************)
EXTENDS Integers, Sequences, FiniteSets, TLC

VARIABLES
    pc,                       \* position of the running function
    identifier_ranges_string, \* str argument / result of the range helpers
    identifier_ranges,        \* list of [start, stop] (modified in situ by fix)
    input_ranges,             \* the list as first handed to the function
    token_ranges,             \* per comma token: the ranges it appended
    iterator,                 \* identifiers the Zinc iterator yields, in order
    nodes,                    \* identifiers of the source region's nodes
    datapoints,               \* target datapoints: original id -> current id
    imported,                 \* identifiers read into the target as datapoints
    existing_nodes_identifiers_set,
    in_use_identifiers,
    available_identifiers,
    max_identifier,
    datapoint_iterator,       \* datapoint identifiers still to be visited
    identifier_map,           \* dict in insertion order: <<current, new>>
    apply_index,              \* items of identifier_map already applied
    apply_log,                \* per applied item: what the nodeset did
    failure,                  \* first external step that reported a failure
    faults                    \* failures the collaborators have reported so far

rangeVars == <<identifier_ranges_string, identifier_ranges, input_ranges,
               token_ranges, iterator>>
regionVars == <<nodes, datapoints, imported, existing_nodes_identifiers_set,
                in_use_identifiers, available_identifiers, max_identifier,
                datapoint_iterator, identifier_map, apply_index, apply_log,
                failure, faults>>
vars == <<pc, rangeVars, regionVars>>

\* ------------------------------------------------------------------ bounds
MaxId == 3          \* range ends handed to identifier_ranges_fix are 0..MaxId
MaxLen == 3         \* longest list handed to identifier_ranges_fix
MaxIterId == 4      \* identifiers an iterator yields are 0..MaxIterId
MaxIterLen == 4     \* longest iterator
MaxStrLen == 5      \* longest parsed string
MaxRoundTripId == 11 \* identifiers of the round trip lists (two digits occur)
MaxNodeId == 5      \* node and datapoint identifiers are 0..MaxNodeId
MaxFaults == 1      \* external failures injected per run

\* --------------------------------------------------------- Python helpers
Min(a, b) == IF a < b THEN a ELSE b
Max(a, b) == IF a > b THEN a ELSE b

DigitChars == <<"0", "1", "2", "3", "4", "5", "6", "7", "8", "9">>

\* str.isdigit() for one character
isdigit(c) == \E d \in 1..10 : DigitChars[d] = c

DigitValue(c) == (CHOOSE d \in 1..10 : DigitChars[d] = c) - 1

\* str(n) for a non-negative int
RECURSIVE nat_str(_)
nat_str(n) ==
    IF n < 10 THEN <<DigitChars[n + 1]>>
    ELSE nat_str(n \div 10) \o <<DigitChars[(n % 10) + 1]>>

\* str(n)
str(n) == IF n < 0 THEN <<"-">> \o nat_str(-n) ELSE nat_str(n)

\* int(s) succeeds on a non-empty run of digits; it raises ValueError on ''
int_ok(s) == s # <<>> /\ \A k \in 1..Len(s) : isdigit(s[k])

RECURSIVE int(_)
int(s) ==
    IF s = <<>> THEN 0
    ELSE 10 * int(SubSeq(s, 1, Len(s) - 1)) + DigitValue(s[Len(s)])

\* s.split(sep) for a one-character separator
RECURSIVE split(_, _)
split(s, sep) ==
    IF \A k \in 1..Len(s) : s[k] # sep THEN <<s>>
    ELSE LET k == CHOOSE j \in 1..Len(s) :
                      s[j] = sep /\ \A m \in 1..(j - 1) : s[m] # sep
         IN  <<SubSeq(s, 1, k - 1)>> \o split(SubSeq(s, k + 1, Len(s)), sep)

isspace(c) == c = " "

\* s.strip()
RECURSIVE strip(_)
strip(s) ==
    IF s = <<>> THEN s
    ELSE IF isspace(s[1]) THEN strip(Tail(s))
    ELSE IF isspace(s[Len(s)]) THEN strip(SubSeq(s, 1, Len(s) - 1))
    ELSE s

\* group.py lines 109-112: cut at the first non-digit
leading_digits(digits) ==
    IF \A k \in 1..Len(digits) : isdigit(digits[k]) THEN digits
    ELSE LET i == CHOOSE j \in 1..Len(digits) :
                      ~isdigit(digits[j]) /\ \A m \in 1..(j - 1) : isdigit(digits[m])
         IN  SubSeq(digits, 1, i - 1)

\* list.sort() compares [start, stop] lists lexicographically
range_le(p, q) == p[1] < q[1] \/ (p[1] = q[1] /\ p[2] <= q[2])

RECURSIVE sort_insert(_, _)
sort_insert(x, s) ==
    IF s = <<>> THEN <<x>>
    ELSE IF range_le(x, Head(s)) THEN <<x>> \o s
    ELSE <<Head(s)>> \o sort_insert(x, Tail(s))

RECURSIVE sort(_)
sort(s) == IF s = <<>> THEN <<>> ELSE sort_insert(Head(s), sort(Tail(s)))

\* list.pop(i) with Python's 0-based i
pop(s, i) == SubSeq(s, 1, i) \o SubSeq(s, i + 2, Len(s))

\* ------------------------------------------------- identifier_ranges_fix
\* a plausible slip: merge overlapping ranges only, not adjacent ones
merge_condition_overlap_only(previous, current) == current[1] <= previous[2]

\* group.py line 83
merge_condition(previous, current) == current[1] <= previous[2] + 1

\* a plausible slip: always take the current stop
merged_stop_always_current(previous, current) == current[2]

\* group.py lines 84-85
merged_stop(previous, current) ==
    IF current[2] > previous[2] THEN current[2] ELSE previous[2]

\* group.py lines 81-88, i is Python's 0-based index
RECURSIVE fix_loop(_, _)
fix_loop(r, i) ==
    IF ~(i < Len(r)) THEN r
    ELSE IF merge_condition(r[i], r[i + 1])
         THEN fix_loop(pop([r EXCEPT ![i][2] = merged_stop(r[i], r[i + 1])], i), i)
         ELSE fix_loop(r, i + 1)

identifier_ranges_fix(r) == fix_loop(sort(r), 1)

\* ----------------------------------------- identifier_ranges_from_string
\* group.py lines 104-113
range_ends(identifier_range_string) ==
    LET ends == split(identifier_range_string, "-")
    IN  [e \in 1..Len(ends) |-> leading_digits(strip(ends[e]))]

\* group.py lines 119-121
ordered_ends(start, stop) == IF stop < start THEN <<stop, start>> ELSE <<start, stop>>

\* a plausible slip: a token with a '-' but no second number kept as [n, n]
parse_token_lenient(identifier_range_string) ==
    LET ends == range_ends(identifier_range_string)
    IN  IF ~int_ok(ends[1]) THEN <<>>
        ELSE IF Len(ends) = 1 \/ ~int_ok(ends[2])
             THEN << <<int(ends[1]), int(ends[1])>> >>
             ELSE << ordered_ends(int(ends[1]), int(ends[2])) >>

\* a plausible slip: the second end never read, stop = start for every token
parse_token_single_only(identifier_range_string) ==
    LET ends == range_ends(identifier_range_string)
    IN  IF ~int_ok(ends[1]) THEN <<>>
        ELSE << <<int(ends[1]), int(ends[1])>> >>

\* group.py lines 103-124: the ranges one token appends (none when int raises)
parse_token(identifier_range_string) ==
    LET ends == range_ends(identifier_range_string)
    IN  IF ~int_ok(ends[1]) THEN <<>>
        ELSE IF Len(ends) = 1 THEN << <<int(ends[1]), int(ends[1])>> >>
        ELSE IF ~int_ok(ends[2]) THEN <<>>
        ELSE << ordered_ends(int(ends[1]), int(ends[2])) >>

RECURSIVE flatten(_)
flatten(ss) == IF ss = <<>> THEN <<>> ELSE Head(ss) \o flatten(Tail(ss))

\* group.py line 102-124: what each comma token appended
parse_tokens(s) ==
    LET tokens == split(s, ",")
    IN  [k \in 1..Len(tokens) |-> parse_token(tokens[k])]

identifier_ranges_from_string(s) == identifier_ranges_fix(flatten(parse_tokens(s)))

\* ------------------------------------------- identifier_ranges_to_string
\* group.py lines 139-142
range_to_string(identifier_range) ==
    IF identifier_range[1] = identifier_range[2] THEN str(identifier_range[1])
    ELSE str(identifier_range[1]) \o <<"-">> \o str(identifier_range[2])

\* group.py lines 136-148
RECURSIVE to_string_loop(_, _, _)
to_string_loop(r, acc, first) ==
    IF r = <<>> THEN acc
    ELSE IF first THEN to_string_loop(Tail(r), range_to_string(Head(r)), FALSE)
    ELSE to_string_loop(Tail(r), acc \o <<",">> \o range_to_string(Head(r)), FALSE)

identifier_ranges_to_string(r) == to_string_loop(r, <<>>, TRUE)

\* ---------------------------------- domain_iterator_to_identifier_ranges
\* a plausible slip: any larger identifier extends the run
extends_run_any_larger(stop, identifier) == identifier > stop

\* group.py line 166
extends_run(stop, identifier) == identifier = stop + 1

\* group.py lines 164-172
RECURSIVE iterator_loop(_, _, _, _)
iterator_loop(it, acc, start, stop) ==
    IF it = <<>> THEN Append(acc, <<start, stop>>)
    ELSE IF extends_run(stop, Head(it))
         THEN iterator_loop(Tail(it), acc, start, Head(it))
         ELSE iterator_loop(Tail(it), Append(acc, <<start, stop>>), Head(it), Head(it))

domain_iterator_to_identifier_ranges(it) ==
    IF it = <<>> THEN <<>>
    ELSE iterator_loop(Tail(it), <<>>, Head(it), Head(it))

\* ------------------------------------------------------------ input sets
SeqsUpTo(S, n) == UNION {[1..m -> S] : m \in 0..n}

\* the characters of the parsed strings
Alphabet == {"1", "5", "-", ",", " ", "x"}

\* integers a range list covers
Covered(r) == UNION {r[k][1]..r[k][2] : k \in 1..Len(r)}

WellFormed(r) == \A k \in 1..Len(r) : r[k][1] <= r[k][2]

SortedByStart(r) == \A k \in 1..(Len(r) - 1) : r[k][1] <= r[k + 1][1]

NoOverlapNoAdjacency(r) == \A k \in 1..(Len(r) - 1) : r[k + 1][1] > r[k][2] + 1

Normalized(r) == WellFormed(r) /\ SortedByStart(r) /\ NoOverlapNoAdjacency(r)

\* the maximal runs of a set of identifiers
Runs(S) == {p \in S \X S : /\ p[1] <= p[2]
                          /\ \A n \in p[1]..p[2] : n \in S
                          /\ (p[1] - 1) \notin S
                          /\ (p[2] + 1) \notin S}

RECURSIVE RunsInOrder(_)
RunsInOrder(R) ==
    IF R = {} THEN <<>>
    ELSE LET p == CHOOSE q \in R : \A o \in R : q[1] <= o[1]
         IN  <<p>> \o RunsInOrder(R \ {p})

NormalizedLists(n) == {RunsInOrder(Runs(S)) : S \in SUBSET (0..n)}

StrictlyAscending(it) == \A k \in 1..(Len(it) - 1) : it[k] < it[k + 1]

\* ------------------------------------------------------------ idle values
RangeIdle ==
    /\ identifier_ranges_string = <<>>
    /\ identifier_ranges = <<>>
    /\ input_ranges = <<>>
    /\ token_ranges = <<>>
    /\ iterator = <<>>

RegionIdle ==
    /\ nodes = {}
    /\ datapoints = <<>>
    /\ imported = {}
    /\ existing_nodes_identifiers_set = {}
    /\ in_use_identifiers = <<>>
    /\ available_identifiers = <<>>
    /\ max_identifier = 0
    /\ datapoint_iterator = <<>>
    /\ identifier_map = <<>>
    /\ apply_index = 0
    /\ apply_log = <<>>
    /\ failure = "none"
    /\ faults = 0

\* ------------------------------------------------------- range operations
\* a caller hands a list to identifier_ranges_fix
InitFix ==
    /\ pc = "fix"
    /\ input_ranges \in SeqsUpTo((0..MaxId) \X (0..MaxId), MaxLen)
    /\ identifier_ranges = input_ranges
    /\ identifier_ranges_string = <<>>
    /\ token_ranges = <<>>
    /\ iterator = <<>>
    /\ RegionIdle

Fix ==
    /\ pc = "fix"
    /\ identifier_ranges' = identifier_ranges_fix(identifier_ranges)
    /\ pc' = "fixed"
    /\ UNCHANGED <<identifier_ranges_string, input_ranges, token_ranges, iterator>>
    /\ UNCHANGED regionVars

NextFix == Fix

SpecFix == InitFix /\ [][NextFix]_vars

\* a caller hands a typed string to identifier_ranges_from_string
InitParse ==
    /\ pc = "parse"
    /\ identifier_ranges_string \in SeqsUpTo(Alphabet, MaxStrLen)
    /\ identifier_ranges = <<>>
    /\ input_ranges = <<>>
    /\ token_ranges = <<>>
    /\ iterator = <<>>
    /\ RegionIdle

Parse ==
    /\ pc = "parse"
    /\ token_ranges' = parse_tokens(identifier_ranges_string)
    /\ identifier_ranges' = identifier_ranges_from_string(identifier_ranges_string)
    /\ pc' = "parsed"
    /\ UNCHANGED <<identifier_ranges_string, input_ranges, iterator>>
    /\ UNCHANGED regionVars

NextParse == Parse

SpecParse == InitParse /\ [][NextParse]_vars

\* a caller formats a normalized list and parses the string back
InitRoundTrip ==
    /\ pc = "format"
    /\ input_ranges \in NormalizedLists(MaxRoundTripId)
    /\ identifier_ranges = input_ranges
    /\ identifier_ranges_string = <<>>
    /\ token_ranges = <<>>
    /\ iterator = <<>>
    /\ RegionIdle

Format ==
    /\ pc = "format"
    /\ identifier_ranges_string' = identifier_ranges_to_string(identifier_ranges)
    /\ pc' = "parse"
    /\ UNCHANGED <<identifier_ranges, input_ranges, token_ranges, iterator>>
    /\ UNCHANGED regionVars

NextRoundTrip == Format \/ Parse

SpecRoundTrip == InitRoundTrip /\ [][NextRoundTrip]_vars

\* a caller hands an iterator to domain_iterator_to_identifier_ranges
InitExtract ==
    /\ pc = "extract"
    /\ iterator \in SeqsUpTo(0..MaxIterId, MaxIterLen)
    /\ identifier_ranges = <<>>
    /\ identifier_ranges_string = <<>>
    /\ input_ranges = <<>>
    /\ token_ranges = <<>>
    /\ RegionIdle

Extract ==
    /\ pc = "extract"
    /\ identifier_ranges' = domain_iterator_to_identifier_ranges(iterator)
    /\ pc' = "extracted"
    /\ UNCHANGED <<identifier_ranges_string, input_ranges, token_ranges, iterator>>
    /\ UNCHANGED regionVars

NextExtract == Extract

SpecExtract == InitExtract /\ [][NextExtract]_vars

\* ------------------------------------------- convert_nodes_to_datapoints
\* sorted(s) of a set of ints
RECURSIVE sorted(_)
sorted(S) ==
    IF S = {} THEN <<>>
    ELSE LET m == CHOOSE x \in S : \A y \in S : x <= y
         IN  <<m>> \o sorted(S \ {m})

\* list(range(a, b))
range(a, b) == [k \in 1..(b - a) |-> a + k - 1]

\* a plausible slip: gaps of a single identifier overlooked
has_gap_wider_only(x, y) == y - x > 2

\* region.py line 10: the filter of the comprehension
has_gap(x, y) == y - x > 1

\* region.py lines 8-10
RECURSIVE _find_missing(_)
_find_missing(lst) ==
    IF Len(lst) < 2 THEN <<>>
    ELSE (IF has_gap(lst[1], lst[2]) THEN range(lst[1] + 1, lst[2]) ELSE <<>>)
         \o _find_missing(Tail(lst))

\* a plausible slip: only the node identifiers counted as in use
in_use_nodes_only(existing_datapoint_identifiers, existing_nodes_identifiers) ==
    sorted(existing_nodes_identifiers)

\* region.py line 24
in_use(existing_datapoint_identifiers, existing_nodes_identifiers) ==
    sorted(existing_datapoint_identifiers \cup existing_nodes_identifiers)

\* a plausible slip: the running maximum handed out without being advanced
past_maximum_not_advanced(maximum) == maximum

\* region.py line 36
past_maximum(maximum) == maximum + 1

\* region.py line 33
takes_available(datapoint_identifier) ==
    /\ datapoint_identifier \in existing_nodes_identifiers_set
    /\ Len(available_identifiers) # 0

\* identifiers the target nodeset holds now
HeldIdentifiers == {datapoints[d] : d \in DOMAIN datapoints}

\* nodeset.findNodeByIdentifier: <<d>> for the datapoint d (named by its
\* original identifier) that holds the identifier now, <<>> for an invalid
\* handle
findNodeByIdentifier(identifier) ==
    IF identifier \in HeldIdentifiers
    THEN <<CHOOSE d \in DOMAIN datapoints : datapoints[d] = identifier>>
    ELSE <<>>

\* source and target regions as convert_nodes_to_datapoints finds them
Init ==
    /\ pc = "start"
    /\ nodes \in SUBSET (0..MaxNodeId)
    /\ \E B \in SUBSET (0..MaxNodeId) : datapoints = [d \in B |-> d]
    /\ imported = {}
    /\ existing_nodes_identifiers_set = {}
    /\ in_use_identifiers = <<>>
    /\ available_identifiers = <<>>
    /\ max_identifier = 0
    /\ datapoint_iterator = <<>>
    /\ identifier_map = <<>>
    /\ apply_index = 0
    /\ apply_log = <<>>
    /\ failure = "none"
    /\ faults = 0
    /\ RangeIdle

\* region.py line 18: no nodes, nothing to do
NoNodes ==
    /\ pc = "start"
    /\ nodes = {}
    /\ pc' = "done"
    /\ UNCHANGED <<rangeVars, regionVars>>

\* region.py line 20: no datapoints, straight to the transfer
NoDatapoints ==
    /\ pc = "start"
    /\ nodes # {}
    /\ DOMAIN datapoints = {}
    /\ pc' = "write"
    /\ UNCHANGED <<rangeVars, regionVars>>

\* region.py lines 21-30
PrepareRemap ==
    /\ pc = "start"
    /\ nodes # {}
    /\ DOMAIN datapoints # {}
    /\ existing_nodes_identifiers_set' = nodes
    /\ in_use_identifiers' = in_use(HeldIdentifiers, nodes)
    /\ max_identifier' = in_use_identifiers'[Len(in_use_identifiers')]
    /\ available_identifiers' =
           range(1, in_use_identifiers'[1]) \o _find_missing(in_use_identifiers')
    /\ datapoint_iterator' = sorted(HeldIdentifiers)
    /\ identifier_map' = <<>>
    /\ pc' = "remap"
    /\ UNCHANGED <<nodes, datapoints, imported, apply_index, apply_log,
                   failure, faults>>
    /\ UNCHANGED rangeVars

\* region.py lines 31-40: one datapoint of the remap loop
RemapStep ==
    /\ pc = "remap"
    /\ datapoint_iterator # <<>>
    /\ LET datapoint_identifier == Head(datapoint_iterator)
       IN  /\ IF takes_available(datapoint_identifier)
              THEN /\ identifier_map' = Append(identifier_map,
                          <<datapoint_identifier, Head(available_identifiers)>>)
                   /\ available_identifiers' = Tail(available_identifiers)
                   /\ UNCHANGED max_identifier
              ELSE /\ max_identifier' = past_maximum(max_identifier)
                   /\ identifier_map' = Append(identifier_map,
                          <<datapoint_identifier, max_identifier'>>)
                   /\ UNCHANGED available_identifiers
    /\ datapoint_iterator' = Tail(datapoint_iterator)
    /\ pc' = IF Tail(datapoint_iterator) = <<>> THEN "apply" ELSE "remap"
    /\ UNCHANGED <<nodes, datapoints, imported, existing_nodes_identifiers_set,
                   in_use_identifiers, apply_index, apply_log, failure, faults>>
    /\ UNCHANGED rangeVars

\* region.py lines 42-44: one item of identifier_map; the result of
\* setIdentifier is not looked at.  setIdentifier fails on an invalid handle,
\* on an identifier that is taken, or because the library reports a failure.
ApplyStep ==
    /\ pc = "apply"
    /\ LET current_identifier == identifier_map[apply_index + 1][1]
           new_identifier == identifier_map[apply_index + 1][2]
           datapoint == findNodeByIdentifier(current_identifier)
           taken == new_identifier \in HeldIdentifiers
       IN  \E fault \in {f \in BOOLEAN : f => faults < MaxFaults} :
               LET ok == datapoint # <<>> /\ ~taken /\ ~fault
               IN  /\ datapoints' = IF ok
                                    THEN [datapoints EXCEPT ![datapoint[1]] = new_identifier]
                                    ELSE datapoints
                   /\ apply_log' = Append(apply_log,
                          [found |-> datapoint, taken |-> taken, ok |-> ok])
                   /\ failure' = IF ~ok /\ failure = "none"
                                 THEN "setIdentifier" ELSE failure
                   /\ faults' = IF fault THEN faults + 1 ELSE faults
    /\ apply_index' = apply_index + 1
    /\ pc' = IF apply_index + 1 = Len(identifier_map) THEN "write" ELSE "apply"
    /\ UNCHANGED <<nodes, imported, existing_nodes_identifiers_set,
                   in_use_identifiers, available_identifiers, max_identifier,
                   datapoint_iterator, identifier_map>>
    /\ UNCHANGED rangeVars

\* region.py lines 47-52: the nodes are written to a memory buffer.  The
\* result of source_region.write is not looked at; the result of getBuffer
\* is asserted, and what getBuffer returns after a failed write is the
\* library's choice.
Write ==
    /\ pc = "write"
    /\ \E write_fault \in {f \in BOOLEAN : f => faults < MaxFaults} :
       \E result_ok \in {r \in BOOLEAN : (~write_fault /\ ~r) => faults < MaxFaults} :
           /\ pc' = IF result_ok THEN "read" ELSE "aborted"
           /\ failure' = IF failure # "none" THEN failure
                         ELSE IF write_fault THEN "write"
                         ELSE IF ~result_ok THEN "getBuffer"
                         ELSE failure
           /\ faults' = IF write_fault \/ ~result_ok THEN faults + 1 ELSE faults
    /\ UNCHANGED <<nodes, datapoints, imported, existing_nodes_identifiers_set,
                   in_use_identifiers, available_identifiers, max_identifier,
                   datapoint_iterator, identifier_map, apply_index, apply_log>>
    /\ UNCHANGED rangeVars

\* region.py lines 53-57: the nodes arrive in the target as datapoints, or
\* the assert stops the function
Read ==
    /\ pc = "read"
    /\ \E fault \in {f \in BOOLEAN : f => faults < MaxFaults} :
           /\ imported' = IF fault THEN imported ELSE nodes
           /\ pc' = IF fault THEN "aborted" ELSE "destroy"
           /\ failure' = IF fault /\ failure = "none" THEN "read" ELSE failure
           /\ faults' = IF fault THEN faults + 1 ELSE faults
    /\ UNCHANGED <<nodes, datapoints, existing_nodes_identifiers_set,
                   in_use_identifiers, available_identifiers, max_identifier,
                   datapoint_iterator, identifier_map, apply_index, apply_log>>
    /\ UNCHANGED rangeVars

\* region.py line 58
DestroyAllNodes ==
    /\ pc = "destroy"
    /\ nodes' = {}
    /\ pc' = "done"
    /\ UNCHANGED <<datapoints, imported, existing_nodes_identifiers_set,
                   in_use_identifiers, available_identifiers, max_identifier,
                   datapoint_iterator, identifier_map, apply_index, apply_log,
                   failure, faults>>
    /\ UNCHANGED rangeVars

Next ==
    \/ NoNodes
    \/ NoDatapoints
    \/ PrepareRemap
    \/ RemapStep
    \/ ApplyStep
    \/ Write
    \/ Read
    \/ DestroyAllNodes

Spec == Init /\ [][Next]_vars

\* ------------------------------------------------------------ properties
\* C1: after identifier_ranges_fix a list of ranges with start <= stop is
\* sorted ascending by start, consecutive ranges [a,b],[c,d] have c > b+1,
\* and the list covers exactly the integers the input covered.
FixNormalizesAndPreservesCoverage ==
    (pc = "fixed" /\ WellFormed(input_ranges)) =>
        /\ SortedByStart(identifier_ranges)
        /\ NoOverlapNoAdjacency(identifier_ranges)
        /\ Covered(identifier_ranges) = Covered(input_ranges)

\* an unsorted list of three ranges, two of which merge
FixNormalizesWitness ==
    /\ pc = "fixed"
    /\ WellFormed(input_ranges)
    /\ Len(input_ranges) = 3
    /\ input_ranges # sort(input_ranges)
    /\ Len(identifier_ranges) = 2

\* C6 as stated: two ranges [a,b],[c,d] with c <= b+1 are fixed to the
\* single range [min(a,c), max(b,d)].
MergeOfTwoAsStated ==
    (/\ pc = "fixed"
     /\ Len(input_ranges) = 2
     /\ WellFormed(input_ranges)
     /\ input_ranges[2][1] <= input_ranges[1][2] + 1) =>
        identifier_ranges = << <<Min(input_ranges[1][1], input_ranges[2][1]),
                                 Max(input_ranges[1][2], input_ranges[2][2])>> >>

\* C6 amended: two ranges [a,b],[c,d] with c <= b+1 and a <= d+1 (they
\* overlap or are adjacent, whichever comes first) are fixed to the single
\* range [min(a,c), max(b,d)].
MergeOfTwoTouching ==
    (/\ pc = "fixed"
     /\ Len(input_ranges) = 2
     /\ WellFormed(input_ranges)
     /\ input_ranges[2][1] <= input_ranges[1][2] + 1
     /\ input_ranges[1][1] <= input_ranges[2][2] + 1) =>
        identifier_ranges = << <<Min(input_ranges[1][1], input_ranges[2][1]),
                                 Max(input_ranges[1][2], input_ranges[2][2])>> >>

\* two touching ranges, the second starting lower and the first ending higher
MergeOfTwoWitness ==
    /\ pc = "fixed"
    /\ Len(input_ranges) = 2
    /\ WellFormed(input_ranges)
    /\ input_ranges[2][1] < input_ranges[1][1]
    /\ input_ranges[1][1] <= input_ranges[2][2] + 1
    /\ input_ranges[2][2] < input_ranges[1][2]
    /\ Len(identifier_ranges) = 1

\* C5: for a strictly ascending iterator the result is the normalized range
\* list covering exactly the yielded identifiers; an empty iterator gives
\* the empty list.
ExtractGivesNormalizedCover ==
    (pc = "extracted" /\ StrictlyAscending(iterator)) =>
        /\ Normalized(identifier_ranges)
        /\ Covered(identifier_ranges) = {iterator[k] : k \in 1..Len(iterator)}
        /\ (iterator = <<>> => identifier_ranges = <<>>)

\* an ascending iterator with a run and a gap
ExtractWitness ==
    /\ pc = "extracted"
    /\ StrictlyAscending(iterator)
    /\ Len(iterator) >= 3
    /\ Len(identifier_ranges) = 2

\* C4: a normalized list of non-negative identifiers is read back unchanged
\* from its string, so formatting the parsed list gives the same string.
RoundTrip ==
    (pc = "parsed" /\ Normalized(input_ranges)) =>
        /\ identifier_ranges = input_ranges
        /\ identifier_ranges_to_string(identifier_ranges) = identifier_ranges_string

\* a list with a single object range, a two digit identifier and a range
RoundTripWitness ==
    /\ pc = "parsed"
    /\ Len(input_ranges) >= 3
    /\ \E k \in 1..Len(input_ranges) : input_ranges[k][1] = input_ranges[k][2]
    /\ \E k \in 1..Len(input_ranges) : /\ input_ranges[k][1] < input_ranges[k][2]
                                        /\ input_ranges[k][2] >= 10

\* the comma separated tokens of the parsed string
Tokens == split(identifier_ranges_string, ",")

\* the ends of a token that are numeric after cleanup
NumericEnds(token) == {e \in 1..Len(range_ends(token)) : int_ok(range_ends(token)[e])}

\* the one numeric end of a token that has exactly one
OnlyEnd(token) == int(range_ends(token)[CHOOSE e \in NumericEnds(token) : TRUE])

HasDash(token) == \E k \in 1..Len(token) : token[k] = "-"

\* C7 as stated: every token with exactly one numeric endpoint n after
\* cleanup, tokens with a '-' such as '5-' or '5-x' included, contributes
\* the range [n, n].
OneEndpointTokenAsStated ==
    pc = "parsed" =>
        \A k \in 1..Len(Tokens) :
            Cardinality(NumericEnds(Tokens[k])) = 1 =>
                token_ranges[k] = << <<OnlyEnd(Tokens[k]), OnlyEnd(Tokens[k])>> >>

\* C7 amended: a token without '-' that yields a numeric endpoint n
\* contributes [n, n], and n is covered by the result; a token with a '-'
\* that yields exactly one numeric endpoint contributes nothing.
OneEndpointToken ==
    pc = "parsed" =>
        \A k \in 1..Len(Tokens) :
            Cardinality(NumericEnds(Tokens[k])) = 1 =>
                IF HasDash(Tokens[k])
                THEN token_ranges[k] = <<>>
                ELSE /\ token_ranges[k] = << <<OnlyEnd(Tokens[k]), OnlyEnd(Tokens[k])>> >>
                     /\ OnlyEnd(Tokens[k]) \in Covered(identifier_ranges)

\* a string with a token of each kind: '5-' style and a plain number
OneEndpointTokenWitness ==
    /\ pc = "parsed"
    /\ Len(Tokens) = 2
    /\ HasDash(Tokens[1])
    /\ Cardinality(NumericEnds(Tokens[1])) = 1
    /\ token_ranges[1] = <<>>
    /\ ~HasDash(Tokens[2])
    /\ Len(token_ranges[2]) = 1
    /\ Len(identifier_ranges) = 1

\* ---------------------------------------------- properties of the remap
MapCurrent(k) == identifier_map[k][1]
MapNew(k) == identifier_map[k][2]
MapIndices == 1..Len(identifier_map)
AfterRemap == pc \in {"apply", "write", "read", "destroy", "done", "aborted"}
Remapped == identifier_map # <<>>

\* C2: the identifier map gives the datapoints new identifiers that are
\* pairwise distinct and not among the source node identifiers; once the
\* loop is over every datapoint has one, and a complete application leaves
\* no datapoint on a node identifier.
RemapUnique ==
    /\ \A j, k \in MapIndices : j # k => MapNew(j) # MapNew(k)
    /\ \A k \in MapIndices : MapNew(k) \notin existing_nodes_identifiers_set
    /\ (AfterRemap /\ Remapped) =>
           {MapCurrent(k) : k \in MapIndices} = DOMAIN datapoints
    /\ (AfterRemap /\ Remapped /\ apply_index = Len(identifier_map)
           /\ \A k \in 1..Len(apply_log) : apply_log[k].ok) =>
           HeldIdentifiers \cap existing_nodes_identifiers_set = {}

\* three datapoints remapped: one took a gap, two went past the maximum,
\* one of them colliding
RemapUniqueWitness ==
    /\ pc = "apply"
    /\ Len(identifier_map) >= 3
    /\ \E j, k, m \in MapIndices :
           /\ j # k
           /\ MapCurrent(j) \in existing_nodes_identifiers_set
           /\ MapNew(j) < MapCurrent(j)
           /\ MapCurrent(k) \in existing_nodes_identifiers_set
           /\ MapNew(k) > MaxNodeId
           /\ MapCurrent(m) \notin existing_nodes_identifiers_set

\* C3: every datapoint whose identifier is not a source node identifier is
\* mapped to itself.
NonCollidingKeepsIdentifier ==
    \A k \in MapIndices :
        MapCurrent(k) \notin existing_nodes_identifiers_set => MapNew(k) = MapCurrent(k)

GapNodes == {1, 2, 4, 5}

\* C8 as stated: with source nodes {1,2,4,5} and a colliding datapoint, no
\* identifier greater than 5 is assigned unless 3 was assigned before it.
GapBeforeMaximumAsStated ==
    (/\ existing_nodes_identifiers_set = GapNodes
     /\ DOMAIN datapoints \cap GapNodes # {}) =>
        \A k \in MapIndices :
            MapNew(k) > 5 => \E j \in 1..(k - 1) : MapNew(j) = 3

\* C8 amended: with source nodes {1,2,4,5} and 3 not a datapoint
\* identifier, the first colliding datapoint in iteration order is assigned
\* 3, so no colliding datapoint is assigned an identifier greater than 5
\* before 3 has been assigned.
GapBeforeMaximum ==
    (/\ existing_nodes_identifiers_set = GapNodes
     /\ 3 \notin DOMAIN datapoints) =>
        \A k \in MapIndices :
            MapCurrent(k) \in GapNodes =>
                /\ (\A j \in 1..(k - 1) : MapCurrent(j) \notin GapNodes) => MapNew(k) = 3
                /\ MapNew(k) > 5 => \E j \in 1..(k - 1) : MapNew(j) = 3

\* two colliding datapoints: the first was given 3, the second an
\* identifier past 5
GapBeforeMaximumWitness ==
    /\ existing_nodes_identifiers_set = GapNodes
    /\ 3 \notin DOMAIN datapoints
    /\ pc = "apply"
    /\ \E j, k \in MapIndices :
           /\ j < k
           /\ MapCurrent(j) \in GapNodes
           /\ MapNew(j) = 3
           /\ MapCurrent(k) \in GapNodes
           /\ MapNew(k) > 5

\* C9: a failure of an external step stops the function there: every step
\* the function takes starts where no external step has failed, so none
\* runs after a failure and the source nodes are not destroyed after one.
FailureAborts == [][failure = "none"]_vars

\* C10: in the apply phase the new identifier of the next item is held by
\* no datapoint of the target and the current identifier still finds the
\* datapoint that had it at the start; no setIdentifier met a taken
\* identifier; every item applied so far has moved exactly its own
\* datapoint, as a simultaneous application of the map would.
ApplyNeverCollides ==
    /\ pc = "apply" =>
           /\ MapNew(apply_index + 1) \notin HeldIdentifiers
           /\ findNodeByIdentifier(MapCurrent(apply_index + 1))
                  = <<MapCurrent(apply_index + 1)>>
    /\ \A k \in 1..Len(apply_log) :
           /\ ~apply_log[k].taken
           /\ apply_log[k].found = <<MapCurrent(k)>>
    /\ (AfterRemap /\ Remapped) =>
           \A k \in MapIndices :
               datapoints[MapCurrent(k)] =
                   IF k <= apply_index /\ apply_log[k].ok
                   THEN MapNew(k) ELSE MapCurrent(k)

\* a map of three items, gaps and identifiers past the maximum among them,
\* applied completely
ApplyNeverCollidesWitness ==
    /\ pc = "write"
    /\ apply_index >= 3
    /\ \A k \in 1..Len(apply_log) : apply_log[k].ok
    /\ \E k \in MapIndices : MapNew(k) < MapCurrent(k)
    /\ \E k \in MapIndices : MapNew(k) > MaxNodeId

====
